---- MODULE Spec2Model ----
(***************************************************************************)
(* Model of the hourly statistics-and-ranking job of src/src/index.ts:     *)
(* runGame loads the footballers, fetches the player statistics, loads the *)
(* entries, writes each entry's aggregated statistics and then each pool's *)
(* ranks.  Every await of the source is one step of a pass; the store and  *)
(* the remote API are the environment.                                     *)
(***************************************************************************)
EXTENDS Integers, Sequences, FiniteSets, TLC

\* ---------------------------------------------------------------- bounds
NumEntries == 3         \* entries the store may hold
NumFootballers == 2     \* rows of the footballer table
MaxPasses == 2          \* runGame invocations in one behaviour
MaxFailures == 1        \* store-write / load / fetch failures in one behaviour

\* ------------------------------------------------------- program constants
BustThreshold == 21     \* index.ts:108  goals > 21
FixedDigits == 2        \* index.ts:122  toFixed(2)

EntryIds == 1..NumEntries
PoolIds == {1, 2}
FootballerIds == 1..NumFootballers
\* the remote API also reports a player the footballer table does not hold
UpstreamOnlyId == NumFootballers + 1
PassIds == 1..MaxPasses

NoPool == 0
NoRank == 0
Absent == -1

\* expected_goals is carried in thousandths: 1504 stands for 1.504
\* Raw elements of the API's JSON (index.ts:34-39 reads these four fields).
RawStats ==
    { [goals_scored |-> 0,  own_goals |-> 1, expected_goals |-> Absent],
      [goals_scored |-> 21, own_goals |-> 1, expected_goals |-> 4],
      [goals_scored |-> 22, own_goals |-> 3, expected_goals |-> 1504] }

UpstreamOnlyStat == [goals_scored |-> 22, own_goals |-> 0, expected_goals |-> 999]

\* A response body: the elements the API reports, by player id.
Responses ==
    { r \in UNION { [ids \cup {UpstreamOnlyId} -> RawStats \cup {UpstreamOnlyStat}] :
                        ids \in SUBSET FootballerIds } :
        /\ r[UpstreamOnlyId] = UpstreamOnlyStat
        /\ \A f \in DOMAIN r \ {UpstreamOnlyId} : r[f] \in RawStats }

\* ------------------------------------------------------------ pure parts

\* index.ts:38  parseFloat(player.expected_goals || 0)
ParseExpectedGoals(raw) == IF raw = Absent \/ raw = 0 THEN 0 ELSE raw

\* index.ts:34-39  json.elements.map(...)
MapElements(json) ==
    [ id \in DOMAIN json |->
        [ id |-> id,
          goals_scored |-> json[id].goals_scored,
          own_goals |-> json[id].own_goals,
          expected_goals |-> ParseExpectedGoals(json[id].expected_goals) ] ]

\* index.ts:185-187  eplPlayers.filter(player => footballerIds.includes(player.id))
FilterRelevant(eplPlayers, footballerIds) ==
    [ id \in (DOMAIN eplPlayers) \cap footballerIds |-> eplPlayers[id] ]

\* index.ts:122  parseFloat(expectedGoals.toFixed(2)), on thousandths
Pow10(n) == IF n = 0 THEN 1 ELSE IF n = 1 THEN 10 ELSE IF n = 2 THEN 100 ELSE 1000
ToFixed(x) ==
    LET unit == Pow10(3 - FixedDigits)
    IN  ((x + unit \div 2) \div unit) * unit

RECURSIVE SumOver(_, _, _)
SumOver(S, stats, field) ==
    IF S = {} THEN 0
    ELSE LET f == CHOOSE x \in S : TRUE
         IN  stats[f][field] + SumOver(S \ {f}, stats, field)

\* index.ts:92-95  relevantPlayers.find(p => p.id === footballer.id), if (playerStats)
Matched(footballers, relevantPlayers) == footballers \cap DOMAIN relevantPlayers

\* a threshold that already busts at 21
Classify_AtThreshold(goals, allScored) ==
    IF goals >= BustThreshold THEN "BUST"
    ELSE IF allScored THEN "ACTIVE"
    ELSE "SHORT"

\* index.ts:107-114
Classify(goals, allScored) ==
    IF goals > BustThreshold THEN "BUST"
    ELSE IF allScored THEN "ACTIVE"
    ELSE "SHORT"

\* a footballer without statistics counts as one who has not scored
AllScored_NeedsStat(footballers, relevantPlayers) ==
    \A f \in footballers :
        f \in DOMAIN relevantPlayers /\ relevantPlayers[f].goals_scored # 0

\* index.ts:89, 99-101  allScored starts true; a matched player without a goal clears it
AllScored(footballers, relevantPlayers) ==
    ~ \E f \in Matched(footballers, relevantPlayers) : relevantPlayers[f].goals_scored = 0

\* a net_goals that is kept from going below zero
NetGoals_Clamped(goals, ownGoals) == IF ownGoals > goals THEN 0 ELSE goals - ownGoals

\* index.ts:105
NetGoals(goals, ownGoals) == goals - ownGoals

\* ownGoals accumulated from goals_scored
Aggregate_OwnFromGoals(footballers, relevantPlayers) ==
    LET m == Matched(footballers, relevantPlayers)
        goals == SumOver(m, relevantPlayers, "goals_scored")
        ownGoals == SumOver(m, relevantPlayers, "goals_scored")
        expectedGoals == SumOver(m, relevantPlayers, "expected_goals")
        allScored == AllScored(footballers, relevantPlayers)
    IN  [ goals |-> goals,
          own_goals |-> ownGoals,
          net_goals |-> NetGoals(goals, ownGoals),
          expected_goals |-> ToFixed(expectedGoals),
          all_scored |-> allScored,
          status |-> Classify(goals, allScored) ]

\* index.ts:86-126  the data of one prisma.entry.update of updateEntryStatistics
Aggregate(footballers, relevantPlayers) ==
    LET m == Matched(footballers, relevantPlayers)
        goals == SumOver(m, relevantPlayers, "goals_scored")
        ownGoals == SumOver(m, relevantPlayers, "own_goals")
        expectedGoals == SumOver(m, relevantPlayers, "expected_goals")
        allScored == AllScored(footballers, relevantPlayers)
    IN  [ goals |-> goals,
          own_goals |-> ownGoals,
          net_goals |-> NetGoals(goals, ownGoals),
          expected_goals |-> ToFixed(expectedGoals),
          all_scored |-> allScored,
          status |-> Classify(goals, allScored) ]

\* a comparator that ignores the pool's rule
Compare_NetOnly(a, b, useNetGoals) == b.net_goals - a.net_goals

\* index.ts:149-151  the comparator handed to Array.prototype.sort
Compare(a, b, useNetGoals) ==
    IF useNetGoals THEN b.net_goals - a.net_goals ELSE b.goals - a.goals

\* Array.prototype.sort of the Node 18 runtime (Dockerfile) is a stable sort:
\* x goes behind every element that the comparator does not put after it.
RECURSIVE InsertSorted(_, _, _)
InsertSorted(s, x, useNetGoals) ==
    IF s = <<>> THEN <<x>>
    ELSE IF Compare(s[Len(s)], x, useNetGoals) > 0
         THEN Append(InsertSorted(SubSeq(s, 1, Len(s) - 1), x, useNetGoals), s[Len(s)])
         ELSE Append(s, x)

RECURSIVE SortEntries(_, _)
SortEntries(s, useNetGoals) ==
    IF s = <<>> THEN <<>>
    ELSE InsertSorted(SortEntries(SubSeq(s, 1, Len(s) - 1), useNetGoals),
                      s[Len(s)], useNetGoals)

\* index.ts:134-143  the keys of poolsMap, in insertion order
RECURSIVE PoolOrder(_)
PoolOrder(entries) ==
    IF entries = <<>> THEN <<>>
    ELSE LET front == PoolOrder(SubSeq(entries, 1, Len(entries) - 1))
             last == entries[Len(entries)]
         IN  IF last.pool.id = NoPool \/ \E k \in 1..Len(front) : front[k] = last.pool.id
             THEN front
             ELSE Append(front, last.pool.id)

\* a grouping without the test of entry.pool: entries without a pool join every pool
PoolEntries_WithUnpooled(entries, poolId) ==
    SelectSeq(entries, LAMBDA e : e.pool.id = NoPool \/ e.pool.id = poolId)

\* index.ts:141  poolsMap.get(poolId), in load order
PoolEntries(entries, poolId) ==
    SelectSeq(entries, LAMBDA e : e.pool.id # NoPool /\ e.pool.id = poolId)

\* a pool ranked as loaded, the sort left out
RankedPool_Unsorted(entries, poolId) == PoolEntries(entries, poolId)

\* index.ts:147-151  one pool's entries after the in-place sort
RankedPool(entries, poolId) ==
    LET poolEntries == PoolEntries(entries, poolId)
        useNetGoals == poolEntries[1].pool.rules.own_goals
    IN  SortEntries(poolEntries, useNetGoals)

\* ------------------------------------------------------------------ state

VARIABLES
    poolOf,           \* store: entry id -> pool id, NoPool when the entry has none
    footballersOf,    \* store: entry id -> the entry's footballers (ids)
    rules,            \* store: pool id -> [own_goals]
    entryRow,         \* store: entry id -> statistics fields and rank
    upstream,         \* remote API: the elements it reports now, by player id
    pc,               \* pass -> the await runGame is suspended on
    footballerIds,    \* pass -> runGame's footballerIds
    relevantPlayers,  \* pass -> runGame's relevantPlayers, by player id
    entries,          \* pass -> runGame's entries, as loaded
    i,                \* pass -> position of the running loop
    poolIdx,          \* pass -> position in poolsMap of updateEntryRankings
    outcome,          \* pass -> how runGame ended
    writes,           \* pass -> the prisma.entry.update calls issued, in order
    started,          \* passes started so far
    failures,         \* failures of the store and the API so far
    crashed,          \* an error left runGame unhandled
    process           \* the Node process: its phase of life and what shutdown saw

store == <<poolOf, footballersOf, rules, entryRow>>
locals == <<footballerIds, relevantPlayers, entries, i, poolIdx>>
vars == <<poolOf, footballersOf, rules, entryRow, upstream, pc, footballerIds,
          relevantPlayers, entries, i, poolIdx, outcome, writes, started, failures, crashed,
          process>>

Present == DOMAIN entryRow

\* the event loop runs until process.exit() (index.ts:229)
Alive == process.phase # "exited"

InFlight(p) == pc[p] \notin {"idle", "done"}

\* Prisma defaults of a new Entry row
NewRow ==
    [ goals |-> 0, own_goals |-> 0, net_goals |-> 0, expected_goals |-> 0,
      all_scored |-> FALSE, status |-> "ACTIVE", rank |-> NoRank ]

\* The footballers of entry e in pick layout k: the binary digits of e + k
Pow2(f) == IF f = 0 THEN 1 ELSE IF f = 1 THEN 2 ELSE IF f = 2 THEN 4 ELSE 8
PickLayout(k) ==
    [ e \in EntryIds |-> { f \in FootballerIds : ((e + k) \div Pow2(f - 1)) % 2 = 1 } ]

Init ==
    /\ \E n \in 0..NumEntries :
         /\ poolOf \in [1..n -> PoolIds \cup {NoPool}]
         \* pool ids are interchangeable: pool 2 is the second pool in id order
         /\ \A e \in 1..n : poolOf[e] = 2 => \E d \in 1..(e - 1) : poolOf[d] = 1
         /\ \E k \in 0..1 : footballersOf = [e \in 1..n |-> PickLayout(k)[e]]
         /\ entryRow = [e \in 1..n |-> NewRow]
    /\ rules \in [PoolIds -> [own_goals : BOOLEAN]]
    \* the rules of a pool without entries are never read; two pools in use are
    \* ranked independently, and are given one rule each
    /\ \A q \in PoolIds : (\A e \in DOMAIN poolOf : poolOf[e] # q) => ~rules[q].own_goals
    /\ (\E e \in DOMAIN poolOf : poolOf[e] = 2) => rules[1] # rules[2]
    /\ upstream \in Responses
    /\ pc = [p \in PassIds |-> IF p = 1 THEN "footballers" ELSE "idle"]
    /\ footballerIds = [p \in PassIds |-> {}]
    /\ relevantPlayers = [p \in PassIds |-> <<>>]
    /\ entries = [p \in PassIds |-> <<>>]
    /\ i = [p \in PassIds |-> 0]
    /\ poolIdx = [p \in PassIds |-> 0]
    /\ outcome = [p \in PassIds |-> "none"]
    /\ writes = [p \in PassIds |-> <<>>]
    /\ started = 1
    /\ failures = 0
    /\ crashed = FALSE
    /\ process = [phase |-> "running", startedAtSigint |-> 0, disconnected |-> FALSE]

\* ---------------------------------------------------------------- actions

\* index.ts:219  cron.schedule('0 * * * *', runGame): the hourly tick calls runGame,
\* which runs up to its first await (index.ts:180)
Tick ==
    /\ Alive
    /\ ~crashed
    /\ started < MaxPasses
    /\ started' = started + 1
    /\ pc' = [pc EXCEPT ![started + 1] = "footballers"]
    /\ UNCHANGED <<store, upstream, locals, outcome, writes, failures, crashed, process>>

\* A tick that finds the previous pass finished: passes that take less than the hour
Hourly == Tick /\ \A q \in PassIds : ~InFlight(q)

\* The remote API between two passes: a matchday is played and every reported player
\* moves on to the next of RawStats (the season's totals only grow)
LaterStat(s) ==
    IF s.goals_scored = 0
    THEN [goals_scored |-> 21, own_goals |-> 1, expected_goals |-> 4]
    ELSE [goals_scored |-> 22, own_goals |-> 3, expected_goals |-> 1504]

Matchday ==
    /\ \A q \in PassIds : ~InFlight(q)
    /\ started < MaxPasses
    /\ upstream' = [f \in DOMAIN upstream |->
                       IF f = UpstreamOnlyId THEN upstream[f] ELSE LaterStat(upstream[f])]
    /\ upstream' # upstream
    /\ UNCHANGED <<store, pc, locals, outcome, writes, started, process, failures, crashed>>

\* The errors runGame's catch tells apart (index.ts:204-214)
PrismaErrors == {"PrismaClientInitializationError", "PrismaClientKnownRequestError",
                 "PrismaClientUnknownRequestError"}

\* a catch that handles the Prisma errors and rethrows the rest
RunGameCatch_RethrowsOthers(error) ==
    IF error = "PrismaClientInitializationError" THEN [log |-> "init", rethrown |-> FALSE]
    ELSE IF error = "PrismaClientKnownRequestError" THEN [log |-> "known", rethrown |-> FALSE]
    ELSE IF error = "PrismaClientUnknownRequestError" THEN [log |-> "unknown", rethrown |-> FALSE]
    ELSE [log |-> "unexpected", rethrown |-> TRUE]

\* index.ts:203-215  the catch of runGame: every error is logged, none is rethrown
RunGameCatch(error) ==
    IF error = "PrismaClientInitializationError" THEN [log |-> "init", rethrown |-> FALSE]
    ELSE IF error = "PrismaClientKnownRequestError" THEN [log |-> "known", rethrown |-> FALSE]
    ELSE IF error = "PrismaClientUnknownRequestError" THEN [log |-> "unknown", rethrown |-> FALSE]
    ELSE [log |-> "unexpected", rethrown |-> FALSE]

\* An error thrown inside runGame's try block, outside the loops' own try blocks
Throw(p, error) ==
    LET c == RunGameCatch(error)
    IN  /\ pc' = [pc EXCEPT ![p] = "done"]
        /\ outcome' = [outcome EXCEPT ![p] = IF c.rethrown THEN "rejected" ELSE "aborted"]
        /\ crashed' = (crashed \/ c.rethrown)
        /\ failures' = failures + 1

\* index.ts:180-181  await prisma.footballer.findMany()
LoadFootballers(p) ==
    /\ Alive
    /\ pc[p] = "footballers"
    /\ footballerIds' = [footballerIds EXCEPT ![p] = FootballerIds]
    /\ pc' = [pc EXCEPT ![p] = "fetch"]
    /\ UNCHANGED <<store, upstream, relevantPlayers, entries, i, poolIdx, outcome, writes,
                   started, process, failures, crashed>>

LoadFootballersFails(p) ==
    /\ Alive
    /\ pc[p] = "footballers"
    /\ failures < MaxFailures
    /\ \E error \in PrismaErrors : Throw(p, error)
    /\ UNCHANGED <<store, upstream, locals, writes, started, process>>

\* index.ts:17-44, 183-187  fetchEPLPlayerData succeeds, then the filter
Fetch(p) ==
    /\ Alive
    /\ pc[p] = "fetch"
    /\ LET json == upstream
       IN  relevantPlayers' = [relevantPlayers EXCEPT
                                 ![p] = FilterRelevant(MapElements(json), footballerIds[p])]
    /\ pc' = [pc EXCEPT ![p] = "entries"]
    /\ UNCHANGED <<store, upstream, footballerIds, entries, i, poolIdx, outcome, writes,
                   started, process, failures, crashed>>

\* index.ts:19, 40-43  fetch rejects (network error); the catch rethrows
FetchNetworkError(p) ==
    /\ Alive
    /\ pc[p] = "fetch"
    /\ failures < MaxFailures
    /\ Throw(p, "TypeError")
    /\ UNCHANGED <<store, upstream, locals, writes, started, process>>

\* index.ts:29-31, 40-43  response.ok is false; the catch rethrows
FetchHttpError(p) ==
    /\ Alive
    /\ pc[p] = "fetch"
    /\ failures < MaxFailures
    /\ Throw(p, "Error")
    /\ UNCHANGED <<store, upstream, locals, writes, started, process>>

\* The orders in which findMany (no orderBy) may return the rows
LoadOrders(S) ==
    LET n == Cardinality(S)
    IN  { o \in [1..n -> S] : \/ \A k \in 1..n : o[k] = k
                              \/ \A k \in 1..n : o[k] = n + 1 - k }

\* index.ts:48-73  one row of findMany with its relations
Loaded(e) ==
    [ id |-> e,
      goals |-> entryRow[e].goals,
      net_goals |-> entryRow[e].net_goals,
      footballers |-> footballersOf[e],
      pool |-> IF poolOf[e] = NoPool
               THEN [id |-> NoPool, rules |-> [own_goals |-> FALSE]]
               ELSE [id |-> poolOf[e], rules |-> rules[poolOf[e]]] ]

\* an empty result thrown as an error into runGame's catch instead of the return
LoadEntries_ThrowsOnEmpty(p) ==
    /\ Alive
    /\ pc[p] = "entries"
    /\ \E o \in LoadOrders(Present) :
         entries' = [entries EXCEPT ![p] = [k \in 1..Len(o) |-> Loaded(o[k])]]
    /\ IF Present = {}
       THEN /\ pc' = [pc EXCEPT ![p] = "done"]
            /\ outcome' = [outcome EXCEPT ![p] = "aborted"]
            /\ i' = i
       ELSE /\ pc' = [pc EXCEPT ![p] = "stats"]
            /\ i' = [i EXCEPT ![p] = 1]
            /\ outcome' = outcome
    /\ UNCHANGED <<store, upstream, footballerIds, relevantPlayers, poolIdx, writes,
                   started, process, failures, crashed>>

\* index.ts:189-194  await fetchAllEntries(), and the return on no entries
LoadEntries(p) ==
    /\ Alive
    /\ pc[p] = "entries"
    /\ \E o \in LoadOrders(Present) :
         entries' = [entries EXCEPT ![p] = [k \in 1..Len(o) |-> Loaded(o[k])]]
    /\ IF Present = {}
       THEN /\ pc' = [pc EXCEPT ![p] = "done"]
            /\ outcome' = [outcome EXCEPT ![p] = "noentries"]
            /\ i' = i
       ELSE /\ pc' = [pc EXCEPT ![p] = "stats"]
            /\ i' = [i EXCEPT ![p] = 1]
            /\ outcome' = outcome
    /\ UNCHANGED <<store, upstream, footballerIds, relevantPlayers, poolIdx, writes,
                   started, process, failures, crashed>>

LoadEntriesFails(p) ==
    /\ Alive
    /\ pc[p] = "entries"
    /\ failures < MaxFailures
    /\ \E error \in PrismaErrors : Throw(p, error)
    /\ UNCHANGED <<store, upstream, locals, writes, started, process>>

\* an update whose status does not reach the row with the other fields
UpdateRow_KeepsStatus(row, data) ==
    [ f \in DOMAIN row |-> IF f \in DOMAIN data /\ f # "status" THEN data[f] ELSE row[f] ]

\* an update that replaces the row: the fields data does not name fall back to defaults
UpdateRow_Replaces(row, data) ==
    [ f \in DOMAIN row |-> IF f \in DOMAIN data THEN data[f] ELSE NewRow[f] ]

\* prisma.entry.update({ where: { id }, data }): the fields of data replace the row's
UpdateRow(row, data) ==
    [ f \in DOMAIN row |-> IF f \in DOMAIN data THEN data[f] ELSE row[f] ]

\* a statistics step that is not awaited: runGame goes on to the ranking step as soon
\* as the first update of the loop has been issued
NextEntry_NotAwaited(p) ==
    IF PoolOrder(entries[p]) = <<>>
    THEN /\ pc' = [pc EXCEPT ![p] = "done"]
         /\ outcome' = [outcome EXCEPT ![p] = "success"]
         /\ UNCHANGED <<i, poolIdx>>
    ELSE /\ pc' = [pc EXCEPT ![p] = "rank"]
         /\ poolIdx' = [poolIdx EXCEPT ![p] = 1]
         /\ i' = [i EXCEPT ![p] = 1]
         /\ outcome' = outcome

\* index.ts:84, 130, 196-198  the for-of of updateEntryStatistics moves on; behind
\* the last entry updateEntryRankings starts (index.ts:133-145)
NextEntry(p) ==
    IF i[p] < Len(entries[p])
    THEN /\ i' = [i EXCEPT ![p] = i[p] + 1]
         /\ UNCHANGED <<pc, poolIdx, outcome>>
    ELSE IF PoolOrder(entries[p]) = <<>>
    THEN /\ pc' = [pc EXCEPT ![p] = "done"]
         /\ outcome' = [outcome EXCEPT ![p] = "success"]
         /\ UNCHANGED <<i, poolIdx>>
    ELSE /\ pc' = [pc EXCEPT ![p] = "rank"]
         /\ poolIdx' = [poolIdx EXCEPT ![p] = 1]
         /\ i' = [i EXCEPT ![p] = 1]
         /\ outcome' = outcome

\* an update that is left out when the loaded entry already holds the new goals
UpdateStatistics_SkipsSameGoals(p) ==
    /\ Alive
    /\ pc[p] = "stats"
    /\ LET entry == entries[p][i[p]]
           data == Aggregate(entry.footballers, relevantPlayers[p])
       IN  IF entry.goals = data.goals
           THEN UNCHANGED <<entryRow, writes>>
           ELSE /\ entryRow' = [entryRow EXCEPT ![entry.id] = UpdateRow(@, data)]
                /\ writes' = [writes EXCEPT ![p] =
                                 Append(@, [kind |-> "stats", id |-> entry.id,
                                            data |-> data, ok |-> TRUE])]
    /\ NextEntry(p)
    /\ UNCHANGED <<poolOf, footballersOf, rules, upstream, footballerIds, relevantPlayers,
                   entries, started, process, failures, crashed>>

\* totals that start from the goals the loaded entry holds instead of zero
UpdateStatistics_Accumulates(p) ==
    /\ Alive
    /\ pc[p] = "stats"
    /\ LET entry == entries[p][i[p]]
           fresh == Aggregate(entry.footballers, relevantPlayers[p])
           goals == entry.goals + fresh.goals
           data == [fresh EXCEPT !.goals = goals,
                                 !.net_goals = NetGoals(goals, fresh.own_goals),
                                 !.status = Classify(goals, fresh.all_scored)]
       IN  /\ entryRow' = [entryRow EXCEPT ![entry.id] = UpdateRow(@, data)]
           /\ writes' = [writes EXCEPT ![p] =
                            Append(@, [kind |-> "stats", id |-> entry.id,
                                       data |-> data, ok |-> TRUE])]
    /\ NextEntry(p)
    /\ UNCHANGED <<poolOf, footballersOf, rules, upstream, footballerIds, relevantPlayers,
                   entries, started, process, failures, crashed>>

\* index.ts:86-126  one iteration of updateEntryStatistics; the update succeeds
UpdateStatistics(p) ==
    /\ Alive
    /\ pc[p] = "stats"
    /\ LET entry == entries[p][i[p]]
           data == Aggregate(entry.footballers, relevantPlayers[p])
       IN  /\ entryRow' = [entryRow EXCEPT ![entry.id] = UpdateRow(@, data)]
           /\ writes' = [writes EXCEPT ![p] =
                            Append(@, [kind |-> "stats", id |-> entry.id,
                                       data |-> data, ok |-> TRUE])]
    /\ NextEntry(p)
    /\ UNCHANGED <<poolOf, footballersOf, rules, upstream, footballerIds, relevantPlayers,
                   entries, started, process, failures, crashed>>

\* a try block around the whole loop: the first rejected update ends the loop
UpdateStatisticsFails_LeavesLoop(p) ==
    /\ Alive
    /\ pc[p] = "stats"
    /\ failures < MaxFailures
    /\ failures' = failures + 1
    /\ LET entry == entries[p][i[p]]
           data == Aggregate(entry.footballers, relevantPlayers[p])
       IN  writes' = [writes EXCEPT ![p] =
                         Append(@, [kind |-> "stats", id |-> entry.id,
                                    data |-> data, ok |-> FALSE])]
    /\ IF PoolOrder(entries[p]) = <<>>
       THEN /\ pc' = [pc EXCEPT ![p] = "done"]
            /\ outcome' = [outcome EXCEPT ![p] = "success"]
            /\ UNCHANGED <<i, poolIdx>>
       ELSE /\ pc' = [pc EXCEPT ![p] = "rank"]
            /\ poolIdx' = [poolIdx EXCEPT ![p] = 1]
            /\ i' = [i EXCEPT ![p] = 1]
            /\ outcome' = outcome
    /\ UNCHANGED <<store, upstream, footballerIds, relevantPlayers, entries,
                   started, process, crashed>>

\* index.ts:116-129  the update of one entry rejects; the catch logs and the loop goes on
UpdateStatisticsFails(p) ==
    /\ Alive
    /\ pc[p] = "stats"
    /\ failures < MaxFailures
    /\ failures' = failures + 1
    /\ LET entry == entries[p][i[p]]
           data == Aggregate(entry.footballers, relevantPlayers[p])
       IN  writes' = [writes EXCEPT ![p] =
                         Append(@, [kind |-> "stats", id |-> entry.id,
                                    data |-> data, ok |-> FALSE])]
    /\ NextEntry(p)
    /\ UNCHANGED <<store, upstream, footballerIds, relevantPlayers, entries,
                   started, process, crashed>>

\* index.ts:145, 162, 200  the for-of over poolsMap moves on; behind the last pool
\* runGame logs success
NextPool(p) ==
    IF poolIdx[p] < Len(PoolOrder(entries[p]))
    THEN /\ poolIdx' = [poolIdx EXCEPT ![p] = poolIdx[p] + 1]
         /\ i' = [i EXCEPT ![p] = 1]
         /\ UNCHANGED <<pc, outcome>>
    ELSE /\ pc' = [pc EXCEPT ![p] = "done"]
         /\ outcome' = [outcome EXCEPT ![p] = "success"]
         /\ UNCHANGED <<i, poolIdx>>

\* a rank that is the 0-based index itself
RankData_ZeroBased(index) == [rank |-> index]

\* index.ts:156  data: { rank: i + 1 }, i counting from 0
RankData(index) == [rank |-> index + 1]

\* index.ts:153-158  one iteration of the inner loop of updateEntryRankings; the
\* update succeeds
UpdateRank(p) ==
    /\ Alive
    /\ pc[p] = "rank"
    /\ LET poolId == PoolOrder(entries[p])[poolIdx[p]]
           poolEntries == RankedPool(entries[p], poolId)
           data == RankData(i[p] - 1)
       IN  /\ entryRow' = [entryRow EXCEPT ![poolEntries[i[p]].id] = UpdateRow(@, data)]
           /\ writes' = [writes EXCEPT ![p] =
                            Append(@, [kind |-> "rank", id |-> poolEntries[i[p]].id,
                                       data |-> data, ok |-> TRUE])]
           /\ IF i[p] < Len(poolEntries)
              THEN /\ i' = [i EXCEPT ![p] = i[p] + 1]
                   /\ UNCHANGED <<pc, poolIdx, outcome>>
              ELSE NextPool(p)
    /\ UNCHANGED <<poolOf, footballersOf, rules, upstream, footballerIds, relevantPlayers,
                   entries, started, process, failures, crashed>>

\* a try block around the loop over the pools: the first rejected update ends ranking
UpdateRankFails_LeavesRanking(p) ==
    /\ Alive
    /\ pc[p] = "rank"
    /\ failures < MaxFailures
    /\ failures' = failures + 1
    /\ LET poolId == PoolOrder(entries[p])[poolIdx[p]]
           poolEntries == RankedPool(entries[p], poolId)
           data == RankData(i[p] - 1)
       IN  writes' = [writes EXCEPT ![p] =
                         Append(@, [kind |-> "rank", id |-> poolEntries[i[p]].id,
                                    data |-> data, ok |-> FALSE])]
    /\ pc' = [pc EXCEPT ![p] = "done"]
    /\ outcome' = [outcome EXCEPT ![p] = "success"]
    /\ UNCHANGED <<i, poolIdx>>
    /\ UNCHANGED <<store, upstream, footballerIds, relevantPlayers, entries,
                   started, process, crashed>>

\* index.ts:154-161  a rank update rejects; the catch around the pool logs and the
\* rest of this pool is skipped
UpdateRankFails(p) ==
    /\ Alive
    /\ pc[p] = "rank"
    /\ failures < MaxFailures
    /\ failures' = failures + 1
    /\ LET poolId == PoolOrder(entries[p])[poolIdx[p]]
           poolEntries == RankedPool(entries[p], poolId)
           data == RankData(i[p] - 1)
       IN  writes' = [writes EXCEPT ![p] =
                         Append(@, [kind |-> "rank", id |-> poolEntries[i[p]].id,
                                    data |-> data, ok |-> FALSE])]
    /\ NextPool(p)
    /\ UNCHANGED <<store, upstream, footballerIds, relevantPlayers, entries,
                   started, process, crashed>>

Next ==
    \/ Hourly
    \/ Matchday
    \/ \E p \in PassIds :
         \/ LoadFootballers(p)
         \/ LoadFootballersFails(p)
         \/ Fetch(p)
         \/ FetchNetworkError(p)
         \/ FetchHttpError(p)
         \/ LoadEntries(p)
         \/ LoadEntriesFails(p)
         \/ UpdateStatistics(p)
         \/ UpdateStatisticsFails(p)
         \/ UpdateRank(p)
         \/ UpdateRankFails(p)

Spec == Init /\ [][Next]_vars

\* ------------------------------------------- the whole process: ticks and shutdown

\* index.ts:227-228  SIGINT arrives: the handler calls prisma.$disconnect() and is
\* suspended on it; the cron task is not stopped and no pass is waited for
Sigint ==
    /\ process.phase = "running"
    /\ process' = [process EXCEPT !.phase = "disconnecting", !.startedAtSigint = started]
    /\ UNCHANGED <<store, upstream, pc, locals, outcome, writes, started, failures, crashed>>

\* index.ts:228-229  $disconnect() resolves and the handler calls process.exit()
DisconnectResolves ==
    /\ process.phase = "disconnecting"
    /\ process' = [process EXCEPT !.phase = "exited", !.disconnected = TRUE]
    /\ UNCHANGED <<store, upstream, pc, locals, outcome, writes, started, failures, crashed>>

\* index.ts:227-230  $disconnect() rejects: the handler has no catch, and Node 18
\* (Dockerfile) ends the process on the unhandled rejection
DisconnectRejects ==
    /\ process.phase = "disconnecting"
    /\ failures < MaxFailures
    /\ failures' = failures + 1
    /\ process' = [process EXCEPT !.phase = "exited"]
    /\ UNCHANGED <<store, upstream, pc, locals, outcome, writes, started, crashed>>

\* A store of NumEntries entries in one pool, with the first pick layout
InitProcess ==
    /\ Init
    /\ Present = EntryIds
    /\ \A e \in Present : poolOf[e] = 1
    /\ footballersOf = [e \in Present |-> PickLayout(0)[e]]

\* index.ts:219-230  the process as deployed: the tick calls runGame whether or not
\* a pass is suspended, and SIGINT may arrive at any moment
NextProcess ==
    \/ Tick
    \/ Matchday
    \/ Sigint
    \/ DisconnectResolves
    \/ DisconnectRejects
    \/ \E p \in PassIds :
         \/ LoadFootballers(p)
         \/ LoadFootballersFails(p)
         \/ Fetch(p)
         \/ FetchNetworkError(p)
         \/ FetchHttpError(p)
         \/ LoadEntries(p)
         \/ LoadEntriesFails(p)
         \/ UpdateStatistics(p)
         \/ UpdateStatisticsFails(p)
         \/ UpdateRank(p)
         \/ UpdateRankFails(p)

SpecProcess == InitProcess /\ [][NextProcess]_vars

\* ------------------------------------------------------------- properties

Range(s) == { s[k] : k \in DOMAIN s }

\* the store holds what pass p left: p has returned and no later pass has begun
Settled(p) == pc[p] = "done" /\ p = started

\* p ran through both steps
Completed(p) == Settled(p) /\ outcome[p] = "success"

AllWritesOk(p) == \A w \in Range(writes[p]) : w.ok
RankWritesOk(p) == \A w \in Range(writes[p]) : w.kind = "rank" => w.ok

PoolMembers(q) == { e \in Present : poolOf[e] = q }

\* the data pass p persisted for entry e in its statistics step
Persisted(p, e) ==
    (CHOOSE w \in Range(writes[p]) : w.kind = "stats" /\ w.id = e).data

\* the values of entry e that pass p holds in memory, as loaded
InMemory(p, e) == CHOOSE x \in Range(entries[p]) : x.id = e

RankingKey(q, data) == IF rules[q].own_goals THEN data.net_goals ELSE data.goals

\* C1: after a pass in which every read and write succeeded, within a pool an entry
\* whose ranking key as persisted by this pass is strictly greater has the strictly
\* smaller rank.
C1_RankFollowsPersistedKey ==
    \A p \in PassIds :
        (Completed(p) /\ AllWritesOk(p)) =>
            \A q \in PoolIds : \A a, b \in PoolMembers(q) :
                RankingKey(q, Persisted(p, a)) > RankingKey(q, Persisted(p, b))
                    => entryRow[a].rank < entryRow[b].rank

\* C2: after a ranking pass over all loaded entries whose rank writes all succeeded,
\* the ranks of a pool's N entries are exactly 1..N, each held by one entry.
C2_RanksArePermutation ==
    \A p \in PassIds :
        (Completed(p) /\ RankWritesOk(p)) =>
            \A q \in PoolIds :
                /\ { entryRow[e].rank : e \in PoolMembers(q) } = 1..Cardinality(PoolMembers(q))
                /\ \A a, b \in PoolMembers(q) : entryRow[a].rank = entryRow[b].rank => a = b

\* a pool whose entries tie on the ranking key has been ranked
C2_Witness ==
    \E p \in PassIds :
        /\ Completed(p) /\ RankWritesOk(p)
        /\ \E q \in PoolIds : \E a, b \in PoolMembers(q) :
             /\ a # b
             /\ RankingKey(q, InMemory(p, a)) = RankingKey(q, InMemory(p, b))
             /\ entryRow[a].rank # NoRank /\ entryRow[b].rank # NoRank

\* C3: after a pass in which every write succeeded, every entry's stored net_goals is
\* its stored goals minus its stored own_goals, also when that is negative.
C3_NetGoalsIsDifference ==
    \A p \in PassIds :
        (Completed(p) /\ AllWritesOk(p)) =>
            \A e \in Present :
                entryRow[e].net_goals = entryRow[e].goals - entryRow[e].own_goals

\* an entry with more own goals than goals has been written
C3_Witness ==
    \E p \in PassIds :
        /\ Completed(p) /\ AllWritesOk(p)
        /\ \E e \in Present :
             entryRow[e].own_goals > entryRow[e].goals /\ entryRow[e].net_goals < 0

RECURSIVE SumSet(_)
SumSet(S) == IF S = {} THEN 0 ELSE LET v == CHOOSE x \in S : TRUE IN v + SumSet(S \ {v})

\* the total of a field over the players S of stats: each value times its frequency
Tally(S, stats, field) ==
    SumSet({ v * Cardinality({ f \in S : stats[f][field] = v }) :
                v \in { stats[f][field] : f \in S } })

StatsWritesOf(p) == { w \in Range(writes[p]) : w.kind = "stats" }
RankWriteIndexes(p) == { k \in DOMAIN writes[p] : writes[p][k].kind = "rank" }

\* the footballers of entry e that have a PlayerStat in pass p's relevantPlayers
MatchedOf(p, e) == { f \in footballersOf[e] : f \in DOMAIN relevantPlayers[p] }

\* C4: the status of every statistics write is BUST when goals > 21, else SHORT when
\* a matched player has goals_scored = 0, else ACTIVE; never another status.
C4_StatusByPriority ==
    \A p \in PassIds : \A w \in StatsWritesOf(p) :
        LET zeroScorer == \E f \in MatchedOf(p, w.id) :
                              relevantPlayers[p][f].goals_scored = 0
        IN  /\ w.data.status \in {"BUST", "SHORT", "ACTIVE"}
            /\ w.data.goals > 21 => w.data.status = "BUST"
            /\ (w.data.goals <= 21 /\ zeroScorer) => w.data.status = "SHORT"
            /\ (w.data.goals <= 21 /\ ~zeroScorer) => w.data.status = "ACTIVE"

\* BUST has been written for an entry with a scoreless player, and goals = 21 has been
\* written with a status other than BUST
C4_Witness ==
    /\ \E p \in PassIds : \E w \in StatsWritesOf(p) :
         w.data.goals > 21 /\ ~w.data.all_scored /\ w.data.status = "BUST"
    /\ \E p \in PassIds : \E w \in StatsWritesOf(p) :
         w.data.goals = 21 /\ w.data.status = "ACTIVE"

\* C5: the goals and own_goals of every statistics write are the totals of
\* goals_scored and own_goals over the entry's footballers that have a PlayerStat of
\* the same id, and all_scored says that each of those has goals_scored > 0.
C5_TotalsOverMatched ==
    \A p \in PassIds : \A w \in StatsWritesOf(p) :
        LET m == MatchedOf(p, w.id)
        IN  /\ w.data.goals = Tally(m, relevantPlayers[p], "goals_scored")
            /\ w.data.own_goals = Tally(m, relevantPlayers[p], "own_goals")
            /\ w.data.all_scored = (\A f \in m : relevantPlayers[p][f].goals_scored > 0)

\* an entry with two matched footballers, one of them with own goals, has been written
C5_Witness ==
    \E p \in PassIds : \E w \in StatsWritesOf(p) :
        /\ Cardinality(MatchedOf(p, w.id)) >= 2
        /\ w.data.own_goals > 0 /\ w.data.goals > w.data.own_goals
        /\ ~w.data.all_scored

\* C6: a footballer without a PlayerStat adds nothing and never clears all_scored; an
\* entry none of whose footballers is matched is written with zeros, all_scored true
\* and status ACTIVE.
C6_UnmatchedIgnored ==
    \A p \in PassIds : \A w \in StatsWritesOf(p) :
        LET m == MatchedOf(p, w.id)
        IN  /\ w.data.expected_goals = ToFixed(Tally(m, relevantPlayers[p], "expected_goals"))
            /\ w.data.goals = Tally(m, relevantPlayers[p], "goals_scored")
            /\ w.data.own_goals = Tally(m, relevantPlayers[p], "own_goals")
            /\ ~w.data.all_scored => \E f \in m : relevantPlayers[p][f].goals_scored = 0
            /\ m = {} =>
                 w.data = [ goals |-> 0, own_goals |-> 0, net_goals |-> 0,
                            expected_goals |-> 0, all_scored |-> TRUE,
                            status |-> "ACTIVE" ]

\* one pass has written an entry without footballers, an entry whose footballers are
\* all unmatched, and an entry with a matched and an unmatched footballer
C6_Witness ==
    \E p \in PassIds :
        /\ \E w \in StatsWritesOf(p) : footballersOf[w.id] = {}
        /\ \E w \in StatsWritesOf(p) : footballersOf[w.id] # {} /\ MatchedOf(p, w.id) = {}
        /\ \E w \in StatsWritesOf(p) :
             /\ MatchedOf(p, w.id) # {} /\ MatchedOf(p, w.id) # footballersOf[w.id]
             /\ w.data.all_scored /\ w.data.goals > 0

\* the rank writes of pass p issued before position k for the pool of that write
EarlierInPool(p, k) ==
    { j \in RankWriteIndexes(p) :
        j < k /\ InMemory(p, writes[p][j].id).pool.id = InMemory(p, writes[p][k].id).pool.id }

HeldKey(x) == IF x.pool.rules.own_goals THEN x.net_goals ELSE x.goals

\* C7: within a pool the entry whose key as held by the loaded entry objects
\* (net_goals under own_goals = true, goals otherwise) is strictly greater is given
\* the strictly smaller rank, and the rank is the 1-based position in that order.
C7_RankByRuleKey ==
    \A p \in PassIds : \A k \in RankWriteIndexes(p) :
        LET a == InMemory(p, writes[p][k].id)
        IN  /\ writes[p][k].data.rank = Cardinality(EarlierInPool(p, k)) + 1
            /\ \A j \in RankWriteIndexes(p) :
                 LET b == InMemory(p, writes[p][j].id)
                 IN  (a.pool.id = b.pool.id /\ HeldKey(a) > HeldKey(b))
                        => writes[p][k].data.rank < writes[p][j].data.rank

\* under own_goals = false the entry with more goals but fewer net goals got rank 1
\* and the other rank 2
C7_Witness ==
    \E p \in PassIds : \E k, j \in RankWriteIndexes(p) :
        LET a == InMemory(p, writes[p][k].id)
            b == InMemory(p, writes[p][j].id)
        IN  /\ a.pool.id = b.pool.id /\ ~a.pool.rules.own_goals
            /\ a.goals > b.goals /\ a.net_goals < b.net_goals
            /\ writes[p][k].data.rank = 1 /\ writes[p][j].data.rank = 2
            /\ writes[p][k].ok /\ writes[p][j].ok

LoadedIds(p) == { x.id : x \in Range(entries[p]) }
LoadedPools(p) == { x.pool.id : x \in Range(entries[p]) } \ {NoPool}
LoadedIn(p, q) == { x.id : x \in { y \in Range(entries[p]) : y.pool.id = q } }

StatsIssued(p) == { w.id : w \in StatsWritesOf(p) }
StatsFailed(p) == { w.id : w \in { v \in StatsWritesOf(p) : ~v.ok } }
RankIssued(p) == { writes[p][k].id : k \in RankWriteIndexes(p) }
RankFailed(p) == { writes[p][k].id : k \in { j \in RankWriteIndexes(p) : ~writes[p][j].ok } }

StatFields == {"goals", "own_goals", "net_goals", "expected_goals", "all_scored", "status"}
StatsOf(row) == [ f \in StatFields |-> row[f] ]

\* what the store held for entry e when pass p began: the data of the last statistics
\* write that succeeded in an earlier pass, the new row's values if there is none
EarlierOk(p, e) == { r \in 1..(p - 1) : \E w \in StatsWritesOf(r) : w.id = e /\ w.ok }
BeforePass(p, e) ==
    IF EarlierOk(p, e) = {} THEN StatsOf(NewRow)
    ELSE LET r == CHOOSE x \in EarlierOk(p, e) : \A y \in EarlierOk(p, e) : y <= x
         IN  (CHOOSE w \in StatsWritesOf(r) : w.id = e /\ w.ok).data

\* C8: a statistics write that fails does not stop the pass: once the statistics step
\* is over every loaded entry has had its write issued, the ranking step has issued
\* rank writes for every pool, and the failed entry's stored statistics are those it
\* had before the pass.
C8_StatisticsFailureIsolated ==
    \A p \in PassIds :
        StatsFailed(p) # {} =>
            /\ pc[p] \in {"stats", "rank", "done"}
            /\ pc[p] \in {"rank", "done"} => StatsIssued(p) = LoadedIds(p)
            /\ pc[p] = "done" =>
                 /\ outcome[p] = "success"
                 /\ \A q \in LoadedPools(p) : LoadedIn(p, q) \cap RankIssued(p) # {}
            /\ p = started =>
                 \A e \in StatsFailed(p) : StatsOf(entryRow[e]) = BeforePass(p, e)

\* of three loaded entries the second one's write failed in a pass that followed a
\* pass which wrote it, the other two were written, and the pool was ranked
C8_Witness ==
    \E p \in PassIds :
        /\ pc[p] = "done" /\ Len(entries[p]) >= 3
        /\ StatsFailed(p) = {entries[p][2].id}
        /\ EarlierOk(p, entries[p][2].id) # {}
        /\ StatsOf(entryRow[entries[p][2].id]) # Persisted(p, entries[p][2].id)
        /\ \A k \in {1, 3} : \E w \in StatsWritesOf(p) : w.id = entries[p][k].id /\ w.ok
        /\ LoadedPools(p) # {} /\ RankIssued(p) # {}

\* C9: a rank write that fails in one pool does not stop the ranking of the others:
\* when the pass has returned, every pool with loaded entries in which no rank write
\* failed has had a rank write issued for each of its entries.
C9_RankFailureIsolated ==
    \A p \in PassIds :
        (pc[p] = "done" /\ RankFailed(p) # {}) =>
            /\ outcome[p] = "success"
            /\ \A q \in LoadedPools(p) :
                 LoadedIn(p, q) \cap RankFailed(p) = {} => LoadedIn(p, q) \subseteq RankIssued(p)

\* the first rank write of the first pool failed, leaving its second entry without a
\* rank write, and the pool behind it was ranked
C9_Witness ==
    \E p \in PassIds :
        /\ pc[p] = "done" /\ Len(PoolOrder(entries[p])) = 2
        /\ LET first == PoolOrder(entries[p])[1]
               second == PoolOrder(entries[p])[2]
           IN  /\ Cardinality(LoadedIn(p, first)) = 2
               /\ Cardinality(LoadedIn(p, first) \cap RankFailed(p)) = 1
               /\ Cardinality(LoadedIn(p, first) \cap RankIssued(p)) = 1
               /\ LoadedIn(p, second) \subseteq RankIssued(p) \ RankFailed(p)

\* p returned without reaching the statistics step although there are entries
Aborted(p) == pc[p] = "done" /\ outcome[p] \notin {"success", "noentries"}

\* C10: a pass whose loading of the footballers, fetch or loading of the entries
\* failed has issued no entry update, its error has not left runGame, the next tick
\* can start a pass, and a later pass issues the statistics write of every entry.
C10_LoadFailureAborts ==
    \A p \in PassIds :
        Aborted(p) =>
            /\ writes[p] = <<>>
            /\ outcome[p] = "aborted"
            /\ ~crashed
            /\ (p = started /\ p < MaxPasses) => ENABLED Hourly
            /\ \A r \in PassIds :
                 (r > p /\ pc[r] = "done" /\ ~Aborted(r)) => StatsIssued(r) = Present

\* a pass was aborted after it had loaded the footballers, and the pass of the next
\* tick wrote statistics and ranks
C10_Witness ==
    \E p, r \in PassIds :
        /\ Aborted(p) /\ footballerIds[p] # {} /\ entries[p] = <<>>
        /\ r > p /\ Completed(r) /\ AllWritesOk(r)
        /\ StatsIssued(r) # {} /\ RankIssued(r) # {}

\* the passes that ended in runGame's catch
Caught == { p \in PassIds : pc[p] = "done" /\ outcome[p] \notin {"success", "noentries"} }

\* C11: while the store has no entries, a pass that has returned has issued no
\* statistics write and no rank write, and it has ended either by the return on no
\* entries or in the catch after an operation of its own failed: the errors reported
\* are as many as the operations that failed, so the empty result reports none.
C11_NoEntriesIsNoOp ==
    Present = {} =>
        /\ \A p \in PassIds :
             /\ writes[p] = <<>>
             /\ pc[p] \in {"idle", "footballers", "fetch", "entries", "done"}
             /\ pc[p] = "done" => outcome[p] \in {"noentries", "aborted"}
        /\ Cardinality(Caught) = failures
        /\ ~crashed

\* with no entries in the store, a pass was aborted by a failed load and the pass of
\* the next tick loaded the empty list and returned
C11_Witness ==
    /\ Present = {}
    /\ \E p, r \in PassIds :
         /\ p < r /\ pc[p] = "done" /\ outcome[p] = "aborted"
         /\ pc[r] = "done" /\ outcome[r] = "noentries"
         /\ footballerIds[r] # {} /\ entries[r] = <<>> /\ writes[r] = <<>>

\* the entries pass p loaded that have no pool
Unpooled(p) == { x \in Range(entries[p]) : x.pool.id = NoPool }

\* C12: an entry loaded without a pool is issued no rank write and its stored rank
\* stays what it was, the ranks written in a pool count that pool's entries only,
\* and once the statistics step is over the entry has had its statistics write.
C12_UnpooledOnlyStatistics ==
    \A p \in PassIds :
        /\ \A x \in Unpooled(p) :
             /\ x.id \notin RankIssued(p)
             /\ entryRow[x.id].rank = NoRank
             /\ pc[p] \in {"rank", "done"} => x.id \in StatsIssued(p)
        /\ \A k \in RankWriteIndexes(p) :
             LET q == InMemory(p, writes[p][k].id).pool.id
             IN  /\ q # NoPool
                 /\ writes[p][k].data.rank <= Cardinality(LoadedIn(p, q))
                 /\ writes[p][k].data.rank = Cardinality(EarlierInPool(p, k)) + 1

\* an entry without a pool that held more goals than both entries of a pool and was
\* loaded ahead of them was written its statistics, and the pool got ranks 1 and 2
C12_Witness ==
    \E p \in PassIds : \E x \in Unpooled(p) :
        /\ pc[p] = "done" /\ entries[p][1] = x
        /\ \E w \in StatsWritesOf(p) : w.id = x.id /\ w.ok
        /\ \E q \in LoadedPools(p) :
             /\ Cardinality(LoadedIn(p, q)) = 2
             /\ \A e \in LoadedIn(p, q) : InMemory(p, e).goals < x.goals
             /\ { w.data.rank : w \in { v \in Range(writes[p]) :
                                           v.kind = "rank" /\ v.id \in LoadedIn(p, q) } } = {1, 2}
        /\ entryRow[x.id].rank = NoRank

\* C13: two passes that filtered the same player statistics write the same six
\* values for every entry both of them write, whatever the rows held when either
\* pass loaded them.
C13_AggregationIdempotent ==
    \A p, r \in PassIds :
        (p < r /\ relevantPlayers[p] = relevantPlayers[r]) =>
            \A w \in StatsWritesOf(p) : \A v \in StatsWritesOf(r) :
                w.id = v.id => w.data = v.data

\* two passes wrote the same non-zero statistics for an entry: the first found the
\* new row's zeros in the store, the second the goals the first had written
C13_Witness ==
    \E p, r \in PassIds :
        /\ p < r /\ relevantPlayers[p] = relevantPlayers[r]
        /\ \E w \in StatsWritesOf(p) : \E v \in StatsWritesOf(r) :
             /\ w.id = v.id /\ w.ok /\ v.ok /\ w.data = v.data
             /\ w.data.goals > 0 /\ w.data.own_goals > 0 /\ w.data.expected_goals > 0
             /\ InMemory(p, w.id).goals = 0
             /\ InMemory(r, w.id).goals = w.data.goals

\* the lists findMany could have returned for the rows pass p loaded
Reorderings(s) ==
    { [k \in 1..Len(s) |-> s[o[k]]] : o \in Permutations(1..Len(s)) }

\* no two entries pass p loaded in one pool hold the same ranking key
NoKeyTies(p) ==
    \A x, y \in Range(entries[p]) :
        (x.id # y.id /\ x.pool.id # NoPool /\ x.pool.id = y.pool.id)
            => HeldKey(x) # HeldKey(y)

\* the rank updateEntryRankings gives entry x when the loaded list is s
RankIn(s, x) ==
    LET ranked == RankedPool(s, x.pool.id)
    IN  RankData((CHOOSE k \in 1..Len(ranked) : ranked[k].id = x.id) - 1).rank

\* C14: when no two loaded entries of a pool share the ranking key, the rank of each
\* entry is the same for every order in which the same rows could have been loaded,
\* it is the rank the pass wrote, and two passes that loaded the same rows wrote
\* the same ranks.
C14_RankingDeterministic ==
    \A p \in PassIds :
        NoKeyTies(p) =>
            /\ \A t \in Reorderings(entries[p]) : \A x \in Range(entries[p]) :
                 x.pool.id # NoPool => RankIn(t, x) = RankIn(entries[p], x)
            /\ \A k \in RankWriteIndexes(p) : \A t \in Reorderings(entries[p]) :
                 writes[p][k].data.rank = RankIn(t, InMemory(p, writes[p][k].id))
            /\ \A r \in PassIds : \A k \in RankWriteIndexes(p) : \A j \in RankWriteIndexes(r) :
                 (Range(entries[r]) = Range(entries[p]) /\ writes[p][k].id = writes[r][j].id)
                     => writes[p][k].data = writes[r][j].data

\* a pass has ranked a pool of three entries with three different keys, loaded in an
\* order other than the ranked one
C14_Witness ==
    \E p \in PassIds : \E q \in LoadedPools(p) :
        /\ pc[p] = "done" /\ NoKeyTies(p) /\ RankWritesOk(p)
        /\ Cardinality(LoadedIn(p, q)) = 3
        /\ LoadedIn(p, q) \subseteq RankIssued(p)
        /\ RankedPool(entries[p], q) # PoolEntries(entries[p], q)

\* the step issued an update in pass p
Issued(p) == Len(writes'[p]) = Len(writes[p]) + 1
LastIssued(p) == writes'[p][Len(writes'[p])]

\* C16: no step creates or deletes an entry or changes a pool, a footballer list or a
\* rule; a step changes a row only by an update that succeeds, and only the row it
\* names: a statistics update sets the six statistics fields and keeps the rank, a
\* rank update sets the rank and keeps the six statistics fields.
C16_PassFrame ==
    [][ /\ DOMAIN entryRow' = DOMAIN entryRow
        /\ poolOf' = poolOf /\ footballersOf' = footballersOf /\ rules' = rules
        /\ (\A p \in PassIds : writes'[p] = writes[p]) => entryRow' = entryRow
        /\ \A p \in PassIds : Issued(p) =>
              LET w == LastIssued(p)
              IN  /\ \A e \in Present \ {w.id} : entryRow'[e] = entryRow[e]
                  /\ ~w.ok => entryRow' = entryRow
                  /\ (w.ok /\ w.kind = "stats") =>
                        /\ DOMAIN w.data = StatFields
                        /\ StatsOf(entryRow'[w.id]) = w.data
                        /\ entryRow'[w.id].rank = entryRow[w.id].rank
                  /\ (w.ok /\ w.kind = "rank") =>
                        /\ DOMAIN w.data = {"rank"}
                        /\ entryRow'[w.id].rank = w.data.rank
                        /\ StatsOf(entryRow'[w.id]) = StatsOf(entryRow[w.id])
      ]_vars

\* a later pass has rewritten the statistics of an entry whose row still carries the
\* rank of the pass before, and the pass before ranked an entry whose row kept the
\* non-zero statistics written just before
C16_Witness ==
    \E p, r \in PassIds :
        /\ p < r /\ pc[r] = "stats"
        /\ \E w \in StatsWritesOf(r) :
             /\ w.ok /\ w.id \in RankIssued(p) \ RankFailed(p)
             /\ entryRow[w.id].rank = 2
             /\ StatsOf(entryRow[w.id]) = w.data /\ w.data # Persisted(p, w.id)
        /\ \E k \in RankWriteIndexes(p) :
             /\ writes[p][k].ok /\ Persisted(p, writes[p][k].id).goals > 0
             /\ \E v \in StatsWritesOf(p) : v.id = writes[p][k].id /\ v.ok

\* the pool of the entry that the k-th update of pass p names
PoolOfWrite(p, k) == InMemory(p, writes[p][k].id).pool.id

\* C17: in the log of a pass the statistics updates come first, the k-th of them
\* names the k-th loaded entry, and no rank update is issued before every loaded
\* entry has had its statistics update; the rank updates of one pool are contiguous
\* and the pools follow each other in the order of their first loaded entry; a step
\* issues at most one update, which has succeeded or failed when the step is over.
C17_WritesInOrder ==
    /\ [](\A p \in PassIds :
            /\ \A k \in DOMAIN writes[p] :
                 IF k <= Len(entries[p])
                 THEN writes[p][k].kind = "stats" /\ writes[p][k].id = entries[p][k].id
                 ELSE writes[p][k].kind = "rank"
            /\ pc[p] = "rank" => Len(writes[p]) >= Len(entries[p])
            /\ \A j, k, l \in RankWriteIndexes(p) :
                 (j < k /\ k < l /\ PoolOfWrite(p, j) = PoolOfWrite(p, l))
                     => PoolOfWrite(p, k) = PoolOfWrite(p, j)
            /\ \A j, k \in RankWriteIndexes(p) :
                 (j < k /\ PoolOfWrite(p, j) # PoolOfWrite(p, k)) =>
                     \E a, b \in DOMAIN PoolOrder(entries[p]) :
                         /\ a < b
                         /\ PoolOrder(entries[p])[a] = PoolOfWrite(p, j)
                         /\ PoolOrder(entries[p])[b] = PoolOfWrite(p, k))
    /\ [][\A p \in PassIds :
            \/ writes'[p] = writes[p]
            \/ /\ Issued(p) /\ SubSeq(writes'[p], 1, Len(writes[p])) = writes[p]
               /\ LastIssued(p).ok \in BOOLEAN
               /\ \A r \in PassIds \ {p} : writes'[r] = writes[r]]_vars

\* a pass loaded entries of pools A, B, A in that order: its three statistics updates,
\* the second of which failed, were followed by the two rank updates of A and then
\* the rank update of B
C17_Witness ==
    \E p \in PassIds :
        /\ pc[p] = "done" /\ Len(entries[p]) = 3 /\ Len(writes[p]) = 6
        /\ entries[p][1].pool.id = entries[p][3].pool.id
        /\ entries[p][2].pool.id \notin {NoPool, entries[p][1].pool.id}
        /\ ~writes[p][2].ok
        /\ PoolOfWrite(p, 4) = entries[p][1].pool.id
        /\ PoolOfWrite(p, 5) = entries[p][1].pool.id
        /\ PoolOfWrite(p, 6) = entries[p][2].pool.id

\* the statistics of entry e under the player statistics stats, from the definitions
\* of the fields: totals over the matched footballers, expected_goals to the nearest
\* hundredth, net_goals their difference, status by the order BUST, SHORT, ACTIVE
IsAggregateOf(row, e, stats) ==
    LET m == { f \in footballersOf[e] : f \in DOMAIN stats }
        xg == Tally(m, stats, "expected_goals")
    IN  /\ row.goals = Tally(m, stats, "goals_scored")
        /\ row.own_goals = Tally(m, stats, "own_goals")
        /\ row.net_goals = row.goals - row.own_goals
        /\ row.expected_goals % 10 = 0
        /\ row.expected_goals - xg \in -4..5
        /\ row.all_scored = (\A f \in m : stats[f].goals_scored > 0)
        /\ row.status = IF row.goals > 21 THEN "BUST"
                        ELSE IF row.all_scored THEN "ACTIVE" ELSE "SHORT"

\* C20: when a pass in which every operation succeeded has returned, whatever the
\* pass before it left behind, the stored statistics of every entry are the aggregate
\* of the player statistics that pass fetched: no entry is left stale.
C20_SuccessfulPassHeals ==
    \A r \in PassIds :
        (Completed(r) /\ AllWritesOk(r)) =>
            \A e \in Present : IsAggregateOf(entryRow[e], e, relevantPlayers[r])

\* the pass before wrote one entry and failed on another, which kept the new row's
\* values; the next pass fetched the same statistics, succeeded throughout, and
\* the row that was stale now holds non-zero statistics
C20_Witness ==
    \E p, r \in PassIds :
        /\ p < r /\ relevantPlayers[p] = relevantPlayers[r]
        /\ Completed(r) /\ AllWritesOk(r)
        /\ \E e \in StatsFailed(p) : \E d \in StatsIssued(p) \ StatsFailed(p) :
             /\ BeforePass(r, e) = StatsOf(NewRow)
             /\ BeforePass(r, d) # StatsOf(NewRow)
             /\ StatsOf(entryRow[e]) = Persisted(r, e)
             /\ entryRow[e].goals > 21 /\ entryRow[e].status = "BUST"

\* the entries that some statistics update has reached
EverWritten == { e \in Present : \E p \in PassIds : \E w \in StatsWritesOf(p) : w.id = e /\ w.ok }

\* C15: in every state of the store, whatever the passes in flight are doing, a row
\* that a statistics update has reached holds the status that its own goals and
\* all_scored classify to, and a net_goals equal to its goals minus its own_goals.
C15_StoredRowConsistent ==
    \A e \in EverWritten :
        /\ entryRow[e].status = IF entryRow[e].goals > 21 THEN "BUST"
                                ELSE IF entryRow[e].all_scored THEN "ACTIVE" ELSE "SHORT"
        /\ entryRow[e].net_goals = entryRow[e].goals - entryRow[e].own_goals

\* two passes are in their loops at once: a BUST row has been written by one of them
\* and its update by the other failed, a SHORT row has been written, and a third
\* entry has not been reached by any update yet
C15_Witness ==
    \E p, r \in PassIds :
        /\ p # r /\ pc[p] \in {"stats", "rank"} /\ pc[r] = "stats"
        /\ \E e \in EverWritten :
             /\ e \in StatsFailed(r) /\ e \notin StatsFailed(p)
             /\ entryRow[e].status = "BUST" /\ entryRow[e].own_goals > 0
        /\ \E e \in EverWritten : entryRow[e].status = "SHORT"
        /\ Present \ EverWritten # {}

\* C18: at most one pass of runGame is in flight in any state, also when a tick
\* fires while an earlier pass is suspended on its fetch or on a store operation.
C18_AtMostOneInFlight ==
    Cardinality({ p \in PassIds : InFlight(p) }) <= 1

\* C19: once SIGINT has been received no pass is started; the process exits only with
\* the store disconnected; and no update is issued once the store is disconnected.
C19_ShutdownQuiesces ==
    /\ [](process.phase # "running" => started = process.startedAtSigint)
    /\ [](process.phase = "exited" => process.disconnected)
    /\ [][process.disconnected => writes' = writes]_vars

====
